---- MODULE Spec2Model ----
(***************************************************************************)
(* numpy/core/_type_aliases.py: the tables sctypeDict, allTypes,           *)
(* c_names_dict and sctypes built at import time from the type registry    *)
(* numpy.core.multiarray.typeinfo.                                         *)
(*                                                                         *)
(* A Python str is a sequence of one-character strings, so that            *)
(* k.startswith("NPY_"), k[4:] and f"{base_name}{bits}" are computed.      *)
(* A typeinfo entry is the tuple <<type, kind>> (a struct sequence); a     *)
(* type is named by a handle.  A dict is a function; typeinfo, whose       *)
(* iteration order the script depends on, is a sequence of <<key, value>>  *)
(* items with distinct keys.                                               *)
(***************************************************************************)
EXTENDS Naturals, Sequences, FiniteSets, TLC

\* Abstract category names (_abstract_type_names)
n_generic == <<"g", "e", "n", "e", "r", "i", "c">>
n_integer == <<"i", "n", "t", "e", "g", "e", "r">>
n_inexact == <<"i", "n", "e", "x", "a", "c", "t">>
n_floating == <<"f", "l", "o", "a", "t", "i", "n", "g">>
n_number == <<"n", "u", "m", "b", "e", "r">>
n_flexible == <<"f", "l", "e", "x", "i", "b", "l", "e">>
n_character == <<"c", "h", "a", "r", "a", "c", "t", "e", "r">>
n_complexfloating == <<"c", "o", "m", "p", "l", "e", "x", "f", "l", "o", "a", "t", "i", "n", "g">>
n_unsignedinteger == <<"u", "n", "s", "i", "g", "n", "e", "d", "i", "n", "t", "e", "g", "e", "r">>
n_signedinteger == <<"s", "i", "g", "n", "e", "d", "i", "n", "t", "e", "g", "e", "r">>

\* Alias targets looked up in allTypes
n_float64 == <<"f", "l", "o", "a", "t", "6", "4">>
n_complex128 == <<"c", "o", "m", "p", "l", "e", "x", "1", "2", "8">>
n_float32 == <<"f", "l", "o", "a", "t", "3", "2">>
n_complex64 == <<"c", "o", "m", "p", "l", "e", "x", "6", "4">>
n_float16 == <<"f", "l", "o", "a", "t", "1", "6">>
n_bool_ == <<"b", "o", "o", "l", "_">>
n_object_ == <<"o", "b", "j", "e", "c", "t", "_">>
n_bytes_ == <<"b", "y", "t", "e", "s", "_">>
n_int_ == <<"i", "n", "t", "_">>
n_uint == <<"u", "i", "n", "t">>
n_str_ == <<"s", "t", "r", "_">>
n_longdouble == <<"l", "o", "n", "g", "d", "o", "u", "b", "l", "e">>
n_clongdouble == <<"c", "l", "o", "n", "g", "d", "o", "u", "b", "l", "e">>

\* Keys of _aliases
n_double == <<"d", "o", "u", "b", "l", "e">>
n_cdouble == <<"c", "d", "o", "u", "b", "l", "e">>
n_single == <<"s", "i", "n", "g", "l", "e">>
n_csingle == <<"c", "s", "i", "n", "g", "l", "e">>
n_half == <<"h", "a", "l", "f">>

\* Keys of _extra_aliases ("float" and "complex" are also the base names of line 84)
n_bool == <<"b", "o", "o", "l">>
n_float == <<"f", "l", "o", "a", "t">>
n_complex == <<"c", "o", "m", "p", "l", "e", "x">>
n_object == <<"o", "b", "j", "e", "c", "t">>
n_bytes == <<"b", "y", "t", "e", "s">>
n_a == <<"a">>
n_int == <<"i", "n", "t">>
n_long == <<"l", "o", "n", "g">>
n_ulong == <<"u", "l", "o", "n", "g">>
n_str == <<"s", "t", "r">>
n_unicode == <<"u", "n", "i", "c", "o", "d", "e">>

\* Further registry keys
n_int32 == <<"i", "n", "t", "3", "2">>
n_uint8 == <<"u", "i", "n", "t", "8">>
n_datetime64 == <<"d", "a", "t", "e", "t", "i", "m", "e", "6", "4">>
n_timedelta64 == <<"t", "i", "m", "e", "d", "e", "l", "t", "a", "6", "4">>
n_NPY_DOUBLE == <<"N", "P", "Y", "_", "D", "O", "U", "B", "L", "E">>
n_NPY_FLOAT64 == <<"N", "P", "Y", "_", "F", "L", "O", "A", "T", "6", "4">>

\* The reserved prefix
n_NPY_ == <<"N", "P", "Y", "_">>

(***************************************************************************)
(* Bounds of the model.                                                    *)
(***************************************************************************)
\* registry entries taken from OptionalItems
MaxExtra == 2
\* alias targets left out of the registry
MaxMissing == 1
\* times one loop over an unordered collection departs from the listed order
MaxJumps == 1

(***************************************************************************)
(* numpy.core.multiarray: the scalar types, their ancestry, kind code and  *)
(* byte width.                                                             *)
(***************************************************************************)
AbstractTypes ==
    {"generic", "integer", "inexact", "floating", "number", "flexible",
     "character", "complexfloating", "unsignedinteger", "signedinteger"}

\* getattr(ma, name) for the abstract category names
getattr_ma(name) ==
    CASE name = n_generic -> "generic"
      [] name = n_integer -> "integer"
      [] name = n_inexact -> "inexact"
      [] name = n_floating -> "floating"
      [] name = n_number -> "number"
      [] name = n_flexible -> "flexible"
      [] name = n_character -> "character"
      [] name = n_complexfloating -> "complexfloating"
      [] name = n_unsignedinteger -> "unsignedinteger"
      [] name = n_signedinteger -> "signedinteger"

SignedBases == {"signedinteger", "integer", "number", "generic"}
UnsignedBases == {"unsignedinteger", "integer", "number", "generic"}
FloatBases == {"floating", "inexact", "number", "generic"}
ComplexBases == {"complexfloating", "inexact", "number", "generic"}
CharBases == {"character", "flexible", "generic"}

\* the abstract categories each concrete type inherits from
Bases ==
    [float16 |-> FloatBases, float32 |-> FloatBases, float64 |-> FloatBases,
     longdouble |-> FloatBases,
     complex64 |-> ComplexBases, complex128 |-> ComplexBases,
     clongdouble |-> ComplexBases,
     int_ |-> SignedBases, int32 |-> SignedBases,
     uint |-> UnsignedBases, uint8 |-> UnsignedBases,
     bool_ |-> {"generic"}, object_ |-> {"generic"},
     bytes_ |-> CharBases, str_ |-> CharBases,
     datetime64 |-> {"generic"}, timedelta64 |-> SignedBases]

ConcreteTypes == DOMAIN Bases

issubclass(t, abstract_type) == abstract_type \in Bases[t]

\* dtype(t).kind
KindOf ==
    [float16 |-> "f", float32 |-> "f", float64 |-> "f", longdouble |-> "f",
     complex64 |-> "c", complex128 |-> "c", clongdouble |-> "c",
     int_ |-> "i", int32 |-> "i", uint |-> "u", uint8 |-> "u",
     bool_ |-> "b", object_ |-> "O", bytes_ |-> "S", str_ |-> "U",
     datetime64 |-> "M", timedelta64 |-> "m"]

\* byte widths that do not depend on the platform
FixedSize ==
    [float16 |-> 2, float32 |-> 4, float64 |-> 8,
     complex64 |-> 8, complex128 |-> 16,
     int_ |-> 8, int32 |-> 4, uint |-> 8, uint8 |-> 1,
     bool_ |-> 1, object_ |-> 8, bytes_ |-> 0, str_ |-> 0,
     datetime64 |-> 8, timedelta64 |-> 8]

\* sizeof(long double) on the supported platforms
LongDoubleSizes == {8, 12, 16}

\* the typeinfo entry of a type
TypeInfo(t) == <<t, KindOf[t]>>

\* v.type and v.kind of a typeinfo entry
type_of(v) == v[1]
kind_of(v) == v[2]

(***************************************************************************)
(* The registries the build is run on.                                     *)
(***************************************************************************)
\* the entries the alias tables and the extended precision step look up
RequiredItems ==
    << <<n_float64, TypeInfo("float64")>>,
       <<n_complex128, TypeInfo("complex128")>>,
       <<n_float32, TypeInfo("float32")>>,
       <<n_complex64, TypeInfo("complex64")>>,
       <<n_float16, TypeInfo("float16")>>,
       <<n_bool_, TypeInfo("bool_")>>,
       <<n_object_, TypeInfo("object_")>>,
       <<n_bytes_, TypeInfo("bytes_")>>,
       <<n_int_, TypeInfo("int_")>>,
       <<n_uint, TypeInfo("uint")>>,
       <<n_str_, TypeInfo("str_")>>,
       <<n_longdouble, TypeInfo("longdouble")>>,
       <<n_clongdouble, TypeInfo("clongdouble")>> >>

\* further entries: C names under the reserved prefix, more sized types, the
\* time kinds, and keys that collide with an alias or an abstract category
OptionalItems ==
    << <<n_NPY_DOUBLE, TypeInfo("float64")>>,
       <<n_NPY_FLOAT64, TypeInfo("float64")>>,
       <<n_int32, TypeInfo("int32")>>,
       <<n_uint8, TypeInfo("uint8")>>,
       <<n_datetime64, TypeInfo("datetime64")>>,
       <<n_timedelta64, TypeInfo("timedelta64")>>,
       <<n_float, TypeInfo("float32")>>,
       <<n_integer, TypeInfo("int_")>> >>

\* the registry of the end-to-end example
ExampleRegistry ==
    << <<n_float64, TypeInfo("float64")>>,
       <<n_float32, TypeInfo("float32")>>,
       <<n_int32, TypeInfo("int32")>>,
       <<n_uint8, TypeInfo("uint8")>>,
       <<n_complex128, TypeInfo("complex128")>> >>

RECURSIVE Pick(_, _, _)
\* the items of seq at the indices in idx, in order, from index i on
Pick(seq, idx, i) ==
    IF i > Len(seq) THEN <<>>
    ELSE (IF i \in idx THEN <<seq[i]>> ELSE <<>>) \o Pick(seq, idx, i + 1)

UpTo(n, max) == {s \in SUBSET (1..n) : Cardinality(s) <= max}

Registries ==
    {Pick(RequiredItems, (1..Len(RequiredItems)) \ miss, 1) \o Pick(OptionalItems, ext, 1) :
        <<miss, ext>> \in {p \in UpTo(Len(RequiredItems), MaxMissing)
                                 \X UpTo(Len(OptionalItems), MaxExtra) :
                             p[1] = {} \/ p[2] = {}}}
    \cup {ExampleRegistry}

(***************************************************************************)
(* The script's constant tables.                                           *)
(***************************************************************************)
\* iterated as a set: the order is not fixed by the script
_abstract_type_names ==
    <<n_generic, n_integer, n_inexact, n_floating, n_number, n_flexible,
      n_character, n_complexfloating, n_unsignedinteger, n_signedinteger>>

_aliases ==
    << <<n_double, n_float64>>,
       <<n_cdouble, n_complex128>>,
       <<n_single, n_float32>>,
       <<n_csingle, n_complex64>>,
       <<n_half, n_float16>> >>

_extra_aliases ==
    << <<n_bool, n_bool_>>,
       <<n_float, n_float64>>,
       <<n_complex, n_complex128>>,
       <<n_object, n_object_>>,
       <<n_bytes, n_bytes_>>,
       <<n_a, n_bytes_>>,
       <<n_int, n_int_>>,
       <<n_long, n_int_>>,
       <<n_ulong, n_uint>>,
       <<n_str, n_str_>>,
       <<n_unicode, n_str_>> >>

\* [(False, "longdouble"), (True, "clongdouble")]
ExtendedPrecList == << <<FALSE, n_longdouble>>, <<TRUE, n_clongdouble>> >>

\* the keys of sctypes, in insertion order
GroupNames == <<"int", "uint", "float", "complex", "others">>

\* the (type_group, abstract_type) list of the classification loop
GroupTests ==
    << <<"int", "signedinteger">>, <<"uint", "unsignedinteger">>,
       <<"float", "floating">>, <<"complex", "complexfloating">>,
       <<"others", "generic">> >>

(***************************************************************************)
(* Python primitives.                                                      *)
(***************************************************************************)
EmptyDict == [k \in {} |-> k]

\* d[k] = v
SetItem(d, k, v) == [x \in DOMAIN d \cup {k} |-> IF x = k THEN v ELSE d[x]]

\* k.startswith(prefix)
startswith(k, prefix) ==
    Len(k) >= Len(prefix) /\ SubSeq(k, 1, Len(prefix)) = prefix

\* k[n:]
slice_from(k, n) == SubSeq(k, n + 1, Len(k))

DigitChars == <<"0", "1", "2", "3", "4", "5", "6", "7", "8", "9">>

RECURSIVE str_int(_)
\* str(n) for n >= 0
str_int(n) ==
    IF n < 10 THEN <<DigitChars[n + 1]>>
    ELSE str_int(n \div 10) \o <<DigitChars[(n % 10) + 1]>>

\* seq without its i-th element
Without(seq, i) == SubSeq(seq, 1, i - 1) \o SubSeq(seq, i + 1, Len(seq))

RECURSIVE distinct(_)
\* the distinct elements of seq, each at its first place
distinct(seq) ==
    IF seq = <<>> THEN <<>>
    ELSE LET init == distinct(SubSeq(seq, 1, Len(seq) - 1))
             last == seq[Len(seq)]
         IN IF \E i \in 1..Len(init) : init[i] = last THEN init
            ELSE Append(init, last)

\* typeinfo.values()
values(items) == [i \in 1..Len(items) |-> items[i][2]]

\* set() that keeps every occurrence
set_of_keeping_duplicates(seq) == seq

\* set(typeinfo.values()), in the order the loop is listed to visit it
set_of(seq) == distinct(seq)

(***************************************************************************)
(* The state of the import: the registry and the platform (inputs), the    *)
(* four tables, and the position in the script (pc, the items the current  *)
(* loop has still to visit, and how often it departed from their order).   *)
(***************************************************************************)
VARIABLES typeinfo, ldsize, sctypeDict, allTypes, c_names_dict, sctypes,
          pc, todo, jumps

vars == <<typeinfo, ldsize, sctypeDict, allTypes, c_names_dict, sctypes,
          pc, todo, jumps>>

\* dtype(t).itemsize
itemsize(t) ==
    IF t = "longdouble" THEN ldsize
    ELSE IF t = "clongdouble" THEN 2 * ldsize
    ELSE FixedSize[t]

RECURSIVE first_group(_, _)
\* the group of the first (type_group, abstract_type) pair, from the i-th on,
\* whose abstract_type concrete_type inherits from; "" when the loop ends
\* without a break
first_group(concrete_type, i) ==
    IF i > Len(GroupTests) THEN ""
    ELSE IF issubclass(concrete_type, GroupTests[i][2]) THEN GroupTests[i][1]
    ELSE first_group(concrete_type, i + 1)

RECURSIVE insert_before_equal(_, _)
\* an insertion that puts x in front of the members of its own width
insert_before_equal(s, x) ==
    IF s = <<>> THEN <<x>>
    ELSE IF itemsize(Head(s)) < itemsize(x)
         THEN <<Head(s)>> \o insert_before_equal(Tail(s), x)
         ELSE <<x>> \o s

RECURSIVE insert_by_itemsize(_, _)
\* x put into the sorted list s behind every member that is not wider
insert_by_itemsize(s, x) ==
    IF s = <<>> THEN <<x>>
    ELSE IF itemsize(Head(s)) <= itemsize(x)
         THEN <<Head(s)>> \o insert_by_itemsize(Tail(s), x)
         ELSE <<x>> \o s

\* a sort that leaves the list as it is
sort_skipped(s) == s

RECURSIVE sort_by_itemsize(_)
\* sctype_list.sort(key=lambda x: dtype(x).itemsize): a stable sort
sort_by_itemsize(s) ==
    IF s = <<>> THEN <<>>
    ELSE insert_by_itemsize(sort_by_itemsize(SubSeq(s, 1, Len(s) - 1)), s[Len(s)])

\* f"{base_name}{bits}" for the type registered under the full name
extended_prec_name(is_complex, longdouble_type) ==
    (IF is_complex THEN n_complex ELSE n_float)
        \o str_int(itemsize(longdouble_type) * 8)

\* line 41 testing the values of c_names_dict instead of its keys
is_c_name_by_value(k, v) ==
    /\ startswith(k, n_NPY_)
    /\ v \notin {c_names_dict[x] : x \in DOMAIN c_names_dict}

\* the condition of line 41
is_c_name(k, v) == startswith(k, n_NPY_) /\ v \notin DOMAIN c_names_dict

\* line 86 without the test
is_new_name_always(name) == TRUE

\* the condition of line 86
is_new_name(name) == name \notin DOMAIN allTypes

\* the condition of line 98
is_time_kind(type_info) == kind_of(type_info) \in {"M", "m"}

Init ==
    /\ typeinfo \in Registries
    /\ ldsize \in LongDoubleSizes
    /\ sctypeDict = EmptyDict
    /\ allTypes = EmptyDict
    /\ c_names_dict = EmptyDict
    /\ sctypes = EmptyDict
    /\ pc = "abstract"
    /\ todo = _abstract_type_names
    /\ jumps = 0

\* the places of todo an unordered loop may visit next
Choices == {i \in 1..Len(todo) : i = 1 \/ jumps < MaxJumps}

\* the loop has visited todo[i]: on to its next item, or to the next loop
Advance(i, next_pc, next_todo) ==
    IF Len(todo) = 1
    THEN pc' = next_pc /\ todo' = next_todo /\ jumps' = 0
    ELSE /\ pc' = pc
         /\ todo' = Without(todo, i)
         /\ jumps' = IF i = 1 THEN jumps ELSE jumps + 1

\* lines 37-38 writing the broad mapping
AbstractStep_Broad ==
    /\ pc = "abstract"
    /\ \E i \in Choices :
        /\ sctypeDict' = SetItem(sctypeDict, todo[i], getattr_ma(todo[i]))
        /\ Advance(i, "typeinfo", typeinfo)
    /\ UNCHANGED <<typeinfo, ldsize, allTypes, c_names_dict, sctypes>>

\* lines 37-38
AbstractStep ==
    /\ pc = "abstract"
    /\ \E i \in Choices :
        /\ allTypes' = SetItem(allTypes, todo[i], getattr_ma(todo[i]))
        /\ Advance(i, "typeinfo", typeinfo)
    /\ UNCHANGED <<typeinfo, ldsize, sctypeDict, c_names_dict, sctypes>>

\* lines 40-42: an entry under the reserved prefix goes to c_names_dict
TypeinfoCName ==
    /\ pc = "typeinfo"
    /\ \E i \in Choices :
        LET k == todo[i][1]
            v == todo[i][2]
        IN /\ is_c_name(k, v)
           /\ c_names_dict' = SetItem(c_names_dict, slice_from(k, 4), v)
           /\ Advance(i, "aliases", _aliases)
    /\ UNCHANGED <<typeinfo, ldsize, sctypeDict, allTypes, sctypes>>

\* lines 43-46 without line 46
TypeinfoType_NarrowOnly ==
    /\ pc = "typeinfo"
    /\ \E i \in Choices :
        LET k == todo[i][1]
            v == todo[i][2]
            concrete_type == type_of(v)
        IN /\ ~is_c_name(k, v)
           /\ allTypes' = SetItem(allTypes, k, concrete_type)
           /\ Advance(i, "aliases", _aliases)
    /\ UNCHANGED <<typeinfo, ldsize, sctypeDict, c_names_dict, sctypes>>

\* lines 43-46 without line 45
TypeinfoType_BroadOnly ==
    /\ pc = "typeinfo"
    /\ \E i \in Choices :
        LET k == todo[i][1]
            v == todo[i][2]
            concrete_type == type_of(v)
        IN /\ ~is_c_name(k, v)
           /\ sctypeDict' = SetItem(sctypeDict, k, concrete_type)
           /\ Advance(i, "aliases", _aliases)
    /\ UNCHANGED <<typeinfo, ldsize, allTypes, c_names_dict, sctypes>>

\* lines 40-41, 43-46: any other entry goes to both name mappings
TypeinfoType ==
    /\ pc = "typeinfo"
    /\ \E i \in Choices :
        LET k == todo[i][1]
            v == todo[i][2]
            concrete_type == type_of(v)
        IN /\ ~is_c_name(k, v)
           /\ allTypes' = SetItem(allTypes, k, concrete_type)
           /\ sctypeDict' = SetItem(sctypeDict, k, concrete_type)
           /\ Advance(i, "aliases", _aliases)
    /\ UNCHANGED <<typeinfo, ldsize, c_names_dict, sctypes>>

\* allTypes[v] of a name that is no key: KeyError ends the import
KeyError ==
    /\ pc' = "error"
    /\ UNCHANGED <<typeinfo, ldsize, sctypeDict, allTypes, c_names_dict,
                   sctypes, todo, jumps>>

\* lines 56-58 without line 57
AliasStep_NarrowOnly ==
    /\ pc = "aliases"
    /\ LET k == todo[1][1]
           v == todo[1][2]
       IN IF v \notin DOMAIN allTypes THEN KeyError
          ELSE /\ allTypes' = SetItem(allTypes, k, allTypes[v])
               /\ Advance(1, "extra", _extra_aliases)
               /\ UNCHANGED <<typeinfo, ldsize, sctypeDict, c_names_dict, sctypes>>

\* lines 56-58
AliasStep ==
    /\ pc = "aliases"
    /\ LET k == todo[1][1]
           v == todo[1][2]
       IN IF v \notin DOMAIN allTypes THEN KeyError
          ELSE /\ sctypeDict' = SetItem(sctypeDict, k, allTypes[v])
               /\ allTypes' = SetItem(allTypes, k, allTypes[v])
               /\ Advance(1, "extra", _extra_aliases)
               /\ UNCHANGED <<typeinfo, ldsize, c_names_dict, sctypes>>

\* lines 76-77 writing both mappings, as lines 56-58 do
ExtraAliasStep_Both ==
    /\ pc = "extra"
    /\ LET k == todo[1][1]
           v == todo[1][2]
       IN IF v \notin DOMAIN allTypes THEN KeyError
          ELSE /\ sctypeDict' = SetItem(sctypeDict, k, allTypes[v])
               /\ allTypes' = SetItem(allTypes, k, allTypes[v])
               /\ Advance(1, "extprec", ExtendedPrecList)
               /\ UNCHANGED <<typeinfo, ldsize, c_names_dict, sctypes>>

\* lines 76-77
ExtraAliasStep ==
    /\ pc = "extra"
    /\ LET k == todo[1][1]
           v == todo[1][2]
       IN IF v \notin DOMAIN allTypes THEN KeyError
          ELSE /\ sctypeDict' = SetItem(sctypeDict, k, allTypes[v])
               /\ Advance(1, "extprec", ExtendedPrecList)
               /\ UNCHANGED <<typeinfo, ldsize, allTypes, c_names_dict, sctypes>>

\* lines 80-88
ExtPrecStep ==
    /\ pc = "extprec"
    /\ LET is_complex == todo[1][1]
           full_name == todo[1][2]
       IN IF full_name \notin DOMAIN allTypes THEN KeyError
          ELSE LET longdouble_type == allTypes[full_name]
                   name == extended_prec_name(is_complex, longdouble_type)
               IN /\ IF is_new_name(name)
                     THEN /\ sctypeDict' = SetItem(sctypeDict, name, longdouble_type)
                          /\ allTypes' = SetItem(allTypes, name, longdouble_type)
                     ELSE UNCHANGED <<sctypeDict, allTypes>>
                  /\ Advance(1, "sctypes", <<>>)
                  /\ UNCHANGED <<typeinfo, ldsize, c_names_dict, sctypes>>

\* lines 95 and 97: the empty groups, and the set the loop runs over
SctypesInit ==
    /\ pc = "sctypes"
    /\ sctypes' = [g \in {GroupNames[i] : i \in 1..Len(GroupNames)} |-> <<>>]
    /\ LET entries == set_of(values(typeinfo))
       IN IF entries = <<>>
          THEN pc' = "sort" /\ todo' = GroupNames
          ELSE pc' = "classify" /\ todo' = entries
    /\ jumps' = 0
    /\ UNCHANGED <<typeinfo, ldsize, sctypeDict, allTypes, c_names_dict>>

\* lines 97-111
ClassifyStep ==
    /\ pc = "classify"
    /\ \E i \in Choices :
        LET type_info == todo[i]
            concrete_type == type_of(type_info)
            type_group == first_group(concrete_type, 1)
        IN /\ IF is_time_kind(type_info) \/ type_group = ""
              THEN UNCHANGED sctypes
              ELSE sctypes' = [sctypes EXCEPT ![type_group] = Append(@, concrete_type)]
           /\ Advance(i, "sort", GroupNames)
    /\ UNCHANGED <<typeinfo, ldsize, sctypeDict, allTypes, c_names_dict>>

\* lines 114-115
SortStep ==
    /\ pc = "sort"
    /\ sctypes' = [sctypes EXCEPT ![todo[1]] = sort_by_itemsize(@)]
    /\ Advance(1, "done", <<>>)
    /\ UNCHANGED <<typeinfo, ldsize, sctypeDict, allTypes, c_names_dict>>

Next ==
    \/ AbstractStep
    \/ TypeinfoCName
    \/ TypeinfoType
    \/ AliasStep
    \/ ExtraAliasStep
    \/ ExtPrecStep
    \/ SctypesInit
    \/ ClassifyStep
    \/ SortStep

Spec == Init /\ [][Next]_vars

(***************************************************************************)
(* Vocabulary of the properties.                                           *)
(***************************************************************************)
RegistryItems == {typeinfo[i] : i \in 1..Len(typeinfo)}
RegistryKeys == {it[1] : it \in RegistryItems}
\* the registry entry stored under key k
EntryOf(k) == (CHOOSE it \in RegistryItems : it[1] = k)[2]

HasReservedPrefix(k) ==
    Len(k) >= 4 /\ k[1] = "N" /\ k[2] = "P" /\ k[3] = "Y" /\ k[4] = "_"
WithoutReservedPrefix(k) == [j \in 1..(Len(k) - 4) |-> k[j + 4]]

AbstractNames ==
    {n_generic, n_integer, n_inexact, n_floating, n_number, n_flexible,
     n_character, n_complexfloating, n_unsignedinteger, n_signedinteger}
PrecisionSynonyms == {n_double, n_cdouble, n_single, n_csingle, n_half}
ConvenienceSynonyms ==
    {n_bool, n_float, n_complex, n_object, n_bytes, n_a, n_int, n_long,
     n_ulong, n_str, n_unicode}
\* the thirteen names the alias steps look up
AliasTargets ==
    {n_float64, n_complex128, n_float32, n_complex64, n_float16, n_bool_,
     n_object_, n_bytes_, n_int_, n_uint, n_str_, n_longdouble, n_clongdouble}
\* the name a synonym stands for
SynonymTarget(k) ==
    CASE k \in {n_double, n_float} -> n_float64
      [] k \in {n_cdouble, n_complex} -> n_complex128
      [] k = n_single -> n_float32
      [] k = n_csingle -> n_complex64
      [] k = n_half -> n_float16
      [] k = n_bool -> n_bool_
      [] k = n_object -> n_object_
      [] k \in {n_bytes, n_a} -> n_bytes_
      [] k \in {n_int, n_long} -> n_int_
      [] k = n_ulong -> n_uint
      [] k \in {n_str, n_unicode} -> n_str_

n_DOUBLE == <<"D", "O", "U", "B", "L", "E">>
n_FLOAT64 == <<"F", "L", "O", "A", "T", "6", "4">>
n_float96 == <<"f", "l", "o", "a", "t", "9", "6">>
n_float128 == <<"f", "l", "o", "a", "t", "1", "2", "8">>
n_complex192 == <<"c", "o", "m", "p", "l", "e", "x", "1", "9", "2">>
n_complex256 == <<"c", "o", "m", "p", "l", "e", "x", "2", "5", "6">>

Built == pc = "done"
Ended == pc \in {"done", "error"}

Members(s) == {s[i] : i \in 1..Len(s)}
Occurrences(s, x) == Cardinality({i \in 1..Len(s) : s[i] = x})
Place(s, x) == CHOOSE i \in 1..Len(s) : s[i] = x
Groups == {"int", "uint", "float", "complex", "others"}

(***************************************************************************)
(* C1                                                                      *)
(***************************************************************************)
\* C1 as stated: once the build has run, sctypeDict maps every registry key
\* without the reserved prefix to the type of the registry entry under that key.
C1_AsStated ==
    Built =>
        \A k \in RegistryKeys :
            ~HasReservedPrefix(k) =>
                k \in DOMAIN sctypeDict /\ sctypeDict[k] = type_of(EntryOf(k))

\* C1 amended: once the build has run, sctypeDict maps every registry key
\* without the reserved prefix to the type of the registry entry under that
\* key, unless the key is a precision or convenience synonym: such a key maps
\* to the type of the registry entry of the name the synonym stands for.
C1_RegistryNamesResolve ==
    Built =>
        \A k \in RegistryKeys :
            ~HasReservedPrefix(k) =>
                /\ k \in DOMAIN sctypeDict
                /\ sctypeDict[k] =
                     IF k \in PrecisionSynonyms \cup ConvenienceSynonyms
                     THEN type_of(EntryOf(SynonymTarget(k)))
                     ELSE type_of(EntryOf(k))

\* the build has run on a registry holding the key "float" for the 32-bit
\* float, and "float" resolves to the 64-bit float
C1_Witness ==
    /\ Built
    /\ n_float \in RegistryKeys
    /\ type_of(EntryOf(n_float)) = "float32"
    /\ sctypeDict[n_float] = "float64"
    /\ sctypeDict[n_float32] = "float32"

(***************************************************************************)
(* C2                                                                      *)
(***************************************************************************)
\* C2 as stated: once the build has run, allTypes maps each of the ten
\* abstract category names to the category handle of that name.
C2_AsStated ==
    Built =>
        \A name \in AbstractNames :
            name \in DOMAIN allTypes /\ allTypes[name] = getattr_ma(name)

\* C2 amended: once the build has run, each of the ten abstract category
\* names is a key of allTypes; it maps to the category handle of that name
\* unless the registry holds a key of that name, and then to the type of that
\* registry entry.
C2_AbstractNamesResolve ==
    Built =>
        \A name \in AbstractNames :
            /\ name \in DOMAIN allTypes
            /\ allTypes[name] =
                 IF name \in RegistryKeys THEN type_of(EntryOf(name))
                 ELSE getattr_ma(name)

\* the build has run on a registry holding the key "integer"
C2_Witness ==
    /\ Built
    /\ n_integer \in RegistryKeys
    /\ allTypes[n_integer] = "int_"
    /\ allTypes[n_generic] = "generic"

(***************************************************************************)
(* C3                                                                      *)
(***************************************************************************)
\* C3 as stated: once the build has run, every convenience synonym is a key
\* of sctypeDict and no key of allTypes.
C3_AsStated ==
    Built =>
        \A k \in ConvenienceSynonyms :
            k \in DOMAIN sctypeDict /\ k \notin DOMAIN allTypes

\* C3 amended: once the build has run, every convenience synonym is a key of
\* sctypeDict, and is a key of allTypes exactly when the registry holds a key
\* of that name.
C3_ConvenienceOnlyBroad ==
    Built =>
        \A k \in ConvenienceSynonyms :
            /\ k \in DOMAIN sctypeDict
            /\ k \in DOMAIN allTypes <=> k \in RegistryKeys

\* the build has run on a registry holding the key "float": "float" is a key
\* of allTypes, "int" is not
C3_Witness ==
    /\ Built
    /\ n_float \in RegistryKeys
    /\ n_float \in DOMAIN allTypes
    /\ n_int \in DOMAIN sctypeDict
    /\ n_int \notin DOMAIN allTypes

Sorted(s) == \A i \in 1..(Len(s) - 1) : itemsize(s[i]) <= itemsize(s[i + 1])

\* new holds the members of old, those of equal width in the order of old
StableRearrangement(old, new) ==
    /\ Len(new) = Len(old)
    /\ Members(new) = Members(old)
    /\ \A i, j \in 1..Len(old) :
         (i < j /\ itemsize(old[i]) = itemsize(old[j]))
             => Place(new, old[i]) < Place(new, old[j])

\* C5: the sort of a group list leaves its members in non-decreasing byte
\* width, members of equal width in the order the classification loop
\* appended them; when the last list is sorted all five are in that order.
C5_SortedStable ==
    [][pc = "sort" =>
          /\ Sorted(sctypes'[todo[1]])
          /\ StableRearrangement(sctypes[todo[1]], sctypes'[todo[1]])
          /\ pc' = "done" => \A g \in Groups : Sorted(sctypes'[g])]_vars

\* the build has run where longdouble is as wide as float64 and was
\* classified before it
C5_Witness ==
    /\ Built
    /\ ldsize = 8
    /\ sctypes["float"] = <<"float16", "float32", "longdouble", "float64">>

(***************************************************************************)
(* C6                                                                      *)
(***************************************************************************)
\* "float" or "complex" followed by the bit width
ExtendedName(is_complex, size) ==
    CASE ~is_complex /\ size = 8 -> n_float64
      [] ~is_complex /\ size = 12 -> n_float96
      [] ~is_complex /\ size = 16 -> n_float128
      [] is_complex /\ size = 16 -> n_complex128
      [] is_complex /\ size = 24 -> n_complex192
      [] is_complex /\ size = 32 -> n_complex256

\* C6: a pass of the extended precision step that finds the name "float"+bits
\* (or "complex"+bits) already a key leaves sctypeDict and allTypes as they
\* are; a pass that does not find it maps the name to the extended precision
\* type in both, and that type is then wider than 8 (16) bytes.
C6_ExtendedPrecision ==
    [][(pc = "extprec" /\ pc' # "error") =>
          LET is_complex == todo[1][1]
              longdouble_type == allTypes[todo[1][2]]
              name == ExtendedName(is_complex, itemsize(longdouble_type))
          IN IF name \in DOMAIN allTypes \cup DOMAIN sctypeDict
             THEN allTypes' = allTypes /\ sctypeDict' = sctypeDict
             ELSE /\ itemsize(longdouble_type) > (IF is_complex THEN 16 ELSE 8)
                  /\ allTypes' = SetItem(allTypes, name, longdouble_type)
                  /\ sctypeDict' = SetItem(sctypeDict, name, longdouble_type)]_vars

\* the step has run where longdouble is 8 bytes wide: "float64" and
\* "complex128" keep their types
C6_Witness ==
    /\ pc = "sctypes"
    /\ ldsize = 8
    /\ allTypes[n_longdouble] = "longdouble"
    /\ allTypes[n_float64] = "float64"
    /\ sctypeDict[n_float64] = "float64"
    /\ allTypes[n_complex128] = "complex128"

(***************************************************************************)
(* C7                                                                      *)
(***************************************************************************)
RECURSIVE Restricted(_, _)
\* the members of s that are in S, in the order of s
Restricted(s, S) ==
    IF s = <<>> THEN <<>>
    ELSE (IF Head(s) \in S THEN <<Head(s)>> ELSE <<>>) \o Restricted(Tail(s), S)

\* C7 as stated: run on the registry {float64, float32, int32, uint8,
\* complex128} the build finishes, the "float" list is [float32, float64] and
\* "double" resolves to the type "float64" resolves to.
C7_AsStated ==
    (typeinfo = ExampleRegistry /\ Ended) =>
        /\ Built
        /\ sctypes["float"] = <<"float32", "float64">>
        /\ sctypeDict[n_double] = sctypeDict[n_float64]

\* C7 amended: run on a registry that holds float64, float32, int32, uint8
\* and complex128 and also the other alias targets, the build
\* finishes, float32 and float64 stand in that order in the "float" list,
\* and "double" resolves to the type "float64" resolves to.
C7_Example ==
    (/\ Members(ExampleRegistry) \subseteq RegistryItems
     /\ AliasTargets \subseteq RegistryKeys
     /\ Ended) =>
        /\ Built
        /\ Restricted(sctypes["float"], {"float32", "float64"}) = <<"float32", "float64">>
        /\ n_double \in DOMAIN sctypeDict
        /\ sctypeDict[n_double] = sctypeDict[n_float64]

\* the build has run on such a registry
C7_Witness ==
    /\ Built
    /\ Members(ExampleRegistry) \subseteq RegistryItems
    /\ AliasTargets \subseteq RegistryKeys
    /\ sctypes["float"] = <<"float16", "float32", "float64", "longdouble">>
    /\ sctypeDict[n_double] = "float64"

(***************************************************************************)
(* C8                                                                      *)
(***************************************************************************)
\* C8 as stated: the build never ends in a failed lookup.
C8_AsStated == pc # "error"

\* C8 amended: the build ends in a failed lookup only on a registry that
\* lacks one of the thirteen alias targets, and runs to completion only on a
\* registry that holds them all.
C8_NoErrorWithTargets ==
    /\ pc = "error" => ~(AliasTargets \subseteq RegistryKeys)
    /\ Built => AliasTargets \subseteq RegistryKeys

\* the build has run to completion on a registry with a C name and a key
\* that collides with a convenience synonym
C8_Witness ==
    /\ Built
    /\ n_float \in RegistryKeys
    /\ n_NPY_DOUBLE \in RegistryKeys
    /\ DOMAIN sctypes = Groups

(***************************************************************************)
(* C9                                                                      *)
(***************************************************************************)
\* the typeinfo loop has visited the item
Visited(it) ==
    /\ pc # "abstract"
    /\ pc = "typeinfo" => it \notin Members(todo)

\* C9: every registry entry under the reserved prefix that the typeinfo loop
\* has visited is in c_names_dict under its key without the prefix, and no
\* key with the prefix is ever a key of sctypeDict or allTypes.
C9_CNamesDiverted ==
    /\ \A it \in RegistryItems :
         (HasReservedPrefix(it[1]) /\ Visited(it)) =>
             /\ WithoutReservedPrefix(it[1]) \in DOMAIN c_names_dict
             /\ c_names_dict[WithoutReservedPrefix(it[1])] = it[2]
    /\ \A k \in DOMAIN sctypeDict \cup DOMAIN allTypes : ~HasReservedPrefix(k)

\* two C names of one entry: the second was visited when c_names_dict
\* already held the entry
C9_Witness ==
    /\ n_DOUBLE \in DOMAIN c_names_dict
    /\ n_FLOAT64 \in DOMAIN c_names_dict
    /\ c_names_dict[n_DOUBLE] = c_names_dict[n_FLOAT64]

(***************************************************************************)
(* C10                                                                     *)
(***************************************************************************)
\* C10 as stated: once the build has run, a name that is a key of both
\* mappings has the same type in both, and every key of allTypes other than
\* the abstract category names is a key of sctypeDict.
C10_AsStated ==
    Built =>
        /\ \A k \in DOMAIN sctypeDict \cap DOMAIN allTypes :
             sctypeDict[k] = allTypes[k]
        /\ \A k \in DOMAIN allTypes \ AbstractNames : k \in DOMAIN sctypeDict

\* C10 amended: once the build has run, a name that is a key of both
\* mappings and is no convenience synonym has the same type in both, and
\* every key of allTypes other than the abstract category names is a key of
\* sctypeDict.
C10_MappingsAgree ==
    Built =>
        /\ \A k \in (DOMAIN sctypeDict \cap DOMAIN allTypes) \ ConvenienceSynonyms :
             sctypeDict[k] = allTypes[k]
        /\ \A k \in DOMAIN allTypes \ AbstractNames : k \in DOMAIN sctypeDict

\* the build has run on a registry holding the key "float": the mappings
\* differ on it
C10_Witness ==
    /\ Built
    /\ n_float \in DOMAIN allTypes
    /\ allTypes[n_float] = "float32"
    /\ sctypeDict[n_float] = "float64"
    /\ allTypes[n_double] = sctypeDict[n_double]

====
